---- MODULE Spec2Model ----
(***************************************************************************)
(* Model of the woreda naming standardizer.                                *)
(*                                                                         *)
(*   standardizer.py  match_and_correct: one pass over the user table,     *)
(*                    each row scored against the reference keys.          *)
(*   app.py           run_app: column resolution (map_columns), the gate   *)
(*                    on missing columns, and the call of                  *)
(*                    match_and_merge_two_datasets.                        *)
(*                                                                         *)
(* Strings are sequences of one-character strings.  The similarity         *)
(* scorers are those of rapidfuzz 3.x, where process.extractOne applies no *)
(* default processor: fuzz.ratio is the normalized Indel similarity and    *)
(* fuzz.token_set_ratio compares whitespace-separated token sets.  Scores  *)
(* are exact fractions [num, den] in lowest terms.                         *)
(***************************************************************************)
EXTENDS Integers, Sequences, FiniteSets, TLC

\* ------------------------------------------------------------------------
\* Characters and strings
\* ------------------------------------------------------------------------

UpperChars ==
  <<"A","B","C","D","E","F","G","H","I","J","K","L","M",
    "N","O","P","Q","R","S","T","U","V","W","X","Y","Z">>

LowerChars ==
  <<"a","b","c","d","e","f","g","h","i","j","k","l","m",
    "n","o","p","q","r","s","t","u","v","w","x","y","z">>

\* The characters of the model in code-point order.
Chars == <<" ", "1">> \o UpperChars \o <<"_">> \o LowerChars

Range(s) == { s[i] : i \in DOMAIN s }

OrdOf == [c \in Range(Chars) |-> CHOOSE i \in DOMAIN Chars : Chars[i] = c]

LowerOf ==
  [c \in Range(Chars) |->
     IF \E i \in DOMAIN UpperChars : UpperChars[i] = c
     THEN LowerChars[CHOOSE i \in DOMAIN UpperChars : UpperChars[i] = c]
     ELSE c]

IsSpace(c) == c = " "

\* str.lower()
Lower(s) == [i \in DOMAIN s |-> LowerOf[s[i]]]

RECURSIVE LStrip(_)
LStrip(s) == IF s # <<>> /\ IsSpace(Head(s)) THEN LStrip(Tail(s)) ELSE s

RECURSIVE RStrip(_)
RStrip(s) ==
  IF s # <<>> /\ IsSpace(s[Len(s)]) THEN RStrip(SubSeq(s, 1, Len(s) - 1)) ELSE s

\* str.strip()
Strip(s) == RStrip(LStrip(s))

\* Lexicographic order of two strings by code point (Python's str <).
RECURSIVE StrLess(_, _)
StrLess(a, b) ==
  IF b = <<>> THEN FALSE
  ELSE IF a = <<>> THEN TRUE
  ELSE IF Head(a) = Head(b) THEN StrLess(Tail(a), Tail(b))
  ELSE OrdOf[Head(a)] < OrdOf[Head(b)]

\* str.split(): the non-empty runs between whitespace, in order.
RECURSIVE SplitFrom(_, _, _)
SplitFrom(s, cur, acc) ==
  IF s = <<>> THEN (IF cur = <<>> THEN acc ELSE Append(acc, cur))
  ELSE IF IsSpace(Head(s))
       THEN SplitFrom(Tail(s), <<>>, IF cur = <<>> THEN acc ELSE Append(acc, cur))
       ELSE SplitFrom(Tail(s), Append(cur, Head(s)), acc)

Split(s) == SplitFrom(s, <<>>, <<>>)

\* sorted(tokens): the tokens of a set in ascending order.
RECURSIVE Sorted(_)
Sorted(toks) ==
  IF toks = {} THEN <<>>
  ELSE LET m == CHOOSE t \in toks : \A u \in toks \ {t} : StrLess(t, u)
       IN  <<m>> \o Sorted(toks \ {m})

\* " ".join(tokens)
RECURSIVE JoinWith(_, _)
JoinWith(seq, sep) ==
  IF seq = <<>> THEN <<>>
  ELSE IF Len(seq) = 1 THEN seq[1]
  ELSE seq[1] \o sep \o JoinWith(Tail(seq), sep)

\* ------------------------------------------------------------------------
\* Similarity scores
\* ------------------------------------------------------------------------

Max(a, b) == IF a >= b THEN a ELSE b

RECURSIVE GCD(_, _)
GCD(a, b) == IF b = 0 THEN a ELSE GCD(b, a % b)

\* A score n/d in lowest terms.
Frac(n, d) == LET g == GCD(n, d) IN [num |-> n \div g, den |-> d \div g]

ScoreOf(n) == [num |-> n, den |-> 1]

ScoreGE(a, b) == a.num * b.den >= b.num * a.den

ScoreGT(a, b) == a.num * b.den > b.num * a.den

ScoreMax(a, b) == IF ScoreGE(a, b) THEN a ELSE b

\* One row of the longest-common-subsequence table.  prev[j + 1] is the
\* length for the characters of a before ch and the first j characters of
\* b; the result is the row with ch added: ch is left out, or paired with
\* its last occurrence among the first j characters of b.
LcsRow(prev, ch, b) ==
  LET occ == { k \in DOMAIN b : b[k] = ch }
  IN  IF occ = {} THEN prev
      ELSE [j1 \in 1..(Len(b) + 1) |->
              LET at == { k \in occ : k < j1 }
              IN  IF at = {} THEN prev[j1]
                  ELSE LET k == CHOOSE m \in at : \A n \in at : n <= m
                       IN  Max(prev[j1], prev[k] + 1)] \o <<>>

RECURSIVE LcsRows(_, _, _)
LcsRows(a, b, prev) ==
  IF a = <<>> THEN prev[Len(b) + 1]
  ELSE LcsRows(Tail(a), b, LcsRow(prev, Head(a), b))

LcsLen(a, b) == LcsRows(a, b, [j \in 1..(Len(b) + 1) |-> 0] \o <<>>)

\* Indel distance: insertions and deletions turning a into b.
IndelDistance(a, b) == Len(a) + Len(b) - 2 * LcsLen(a, b)

\* 100 - 100 * dist / lensum, and 100 for two empty strings.
NormDistance(dist, lensum) ==
  IF lensum = 0 THEN ScoreOf(100) ELSE Frac(100 * (lensum - dist), lensum)

\* fuzz.ratio
Ratio(a, b) == NormDistance(IndelDistance(a, b), Len(a) + Len(b))

\* The end of fuzz.token_set_ratio, from the lengths of the joined
\* intersection (sect_len) and of the two joined differences (ab_len,
\* ba_len), and the Indel distance dist of the two differences: the best of
\* the ratios of sect+ab against sect+ba, sect against sect+ab, and sect
\* against sect+ba, the last two being 0 by definition without intersection.
SectRatio(sect_len, ab_len, ba_len, dist) ==
  IF sect_len = 0 THEN NormDistance(dist, ab_len + ba_len)
  ELSE ScoreMax(NormDistance(dist, (sect_len + 1 + ab_len) + (sect_len + 1 + ba_len)),
                ScoreMax(NormDistance(1 + ab_len, sect_len + (sect_len + 1 + ab_len)),
                         NormDistance(1 + ba_len, sect_len + (sect_len + 1 + ba_len))))

\* The middle of fuzz.token_set_ratio: the differences are sorted and joined.
DiffRatio(sect_len, diff_ab_joined, diff_ba_joined) ==
  SectRatio(sect_len, Len(diff_ab_joined), Len(diff_ba_joined),
            IndelDistance(diff_ab_joined, diff_ba_joined))

SortedJoin(toks) == JoinWith(Sorted(toks), <<" ">>)

\* fuzz.token_set_ratio on the two token sets: 0 when a side has no token,
\* 100 when one side's tokens are all in the other.
TokenSetScore(tokens_a, tokens_b) ==
  IF tokens_a = {} \/ tokens_b = {} THEN ScoreOf(0)
  ELSE IF tokens_a \subseteq tokens_b \/ tokens_b \subseteq tokens_a
       THEN ScoreOf(100)
  ELSE DiffRatio(Len(SortedJoin(tokens_a \cap tokens_b)),
                 SortedJoin(tokens_a \ tokens_b),
                 SortedJoin(tokens_b \ tokens_a))

\* fuzz.token_set_ratio
TokenSetRatio(s1, s2) == TokenSetScore(Range(Split(s1)), Range(Split(s2)))

\* process.extractOne(query, choices, scorer=Scorer): the first choice of
\* the highest score as [found, choice, score, index], and found = FALSE
\* (None) when there is no choice.  A later choice replaces the best one
\* only with a strictly higher score.
NoMatch == [found |-> FALSE, choice |-> <<>>, score |-> [num |-> 0, den |-> 1], index |-> 0]

\* The scorer passed as scorer=.
Score(scorer, a, b) ==
  IF scorer = "token_set_ratio" THEN TokenSetRatio(a, b) ELSE Ratio(a, b)

\* The best match after a choice of the given score at position k.
Better(best, choice, score, k) ==
  IF ~best.found \/ ScoreGT(score, best.score)
  THEN [found |-> TRUE, choice |-> choice, score |-> score, index |-> k]
  ELSE best

RECURSIVE ExtractFrom(_, _, _, _, _)
ExtractFrom(query, choices, scorer, k, best) ==
  IF k > Len(choices) THEN best
  ELSE ExtractFrom(query, choices, scorer, k + 1,
                   Better(best, choices[k], Score(scorer, query, choices[k]), k))

ExtractOne(query, choices, scorer) ==
  ExtractFrom(query, choices, scorer, 1, NoMatch)

\* ------------------------------------------------------------------------
\* Tables
\* ------------------------------------------------------------------------

\* A missing value (pandas NaN), which str() renders as "nan".
NaN == <<"NaN">>

PyStr(v) == IF v = NaN THEN <<"n","a","n">> ELSE v

\* row.get(key, default)
RowGet(row, key, default) == IF key \in DOMAIN row THEN row[key] ELSE default

Row3(r, z, w) == [region |-> r, zone |-> z, woreda |-> w]

Oromia == <<"o","r","o","m","i","a">>
Arsi   == <<"a","r","s","i">>
Bale   == <<"b","a","l","e">>
Adama  == <<"a","d","a","m","a">>
Goba   == <<"g","o","b","a">>

\* The reference tables the file data/reference.csv may hold.
RefOne   == << Row3(Oromia, Arsi, Adama) >>
RefTwo   == << Row3(Oromia, Arsi, Adama), Row3(Oromia, Bale, Goba) >>
RefTitle == << Row3(<<"O","r","o","m","i","a">>, <<"A","r","s","i">>,
                    <<"A","d","a","m","a">>),
               Row3(Oromia, Bale, Goba) >>
ReferenceTables == { <<>>, RefOne, RefTwo, RefTitle }

\* What load_reference_data can find on disk.
RefFileStates == { "ok", "missing", "empty", "badcols" }

\* The rows a user table is made of.
UserRowPool ==
  { Row3(<<" ","O","r","o","m","i","a">>, <<"A","r","s","i"," ">>, Adama),
    Row3(Oromia, Bale, Adama),
    Row3(NaN, Arsi, Adama),
    Row3(<<"s","o","m","a","l","i">>, <<"j","a","r","a","r">>,
         <<"g","a","s","h","a","m","o">>) }

\* The columns a user table may have: all three, or no zone column.
UserColumnSets == { {"region", "zone", "woreda"}, {"region", "woreda"} }

MaxRows == 2

Project(row, cols) == [c \in (DOMAIN row) \cap cols |-> row[c]]

SeqsUpTo(S, n) == UNION { [1..k -> S] : k \in 0..n }

UserTables ==
  { [i \in DOMAIN t |-> Project(t[i], cols)] :
      t \in SeqsUpTo(UserRowPool, MaxRows), cols \in UserColumnSets }

\* An uploaded table: its headers and its rows, a cell per header.
EmptyTable == [columns |-> <<>>, rows |-> <<>>]

\* The woreda thresholds match_and_correct is called with.
Thresholds == { 50, 80, 100 }

\* ------------------------------------------------------------------------
\* standardizer.py: match_and_correct
\* ------------------------------------------------------------------------

VARIABLES
  pc,                \* position in match_and_correct
  ref_file,          \* state of data/reference.csv
  reference_rows,    \* the rows of the file
  user_df,           \* argument: the user's table
  threshold,         \* argument: the woreda threshold
  reference_df,      \* the loaded reference
  reference_choices, \* the concatenated keys of the reference
  corrected_df,      \* one annotated record per row of user_df
  unmatched_rows,    \* the rows that found no match
  index,             \* the row the loop has reached
  query_string,      \* the key of that row
  best_match,        \* what extractOne returned for it
  raised             \* the exception that left the function, or "none"

VARIABLES
  app_pc,             \* position in run_app
  df1, df2,           \* the two uploaded tables
  matching_threshold, \* the slider's value
  col_mapping1, missing1, \* map_columns(df1, required_key_columns)
  col_mapping2, missing2, \* map_columns(df2, required_key_columns)
  errors,             \* the st.error messages shown
  matcher_called,     \* match_and_merge_two_datasets has been called
  pool,               \* the comparison keys of df2
  claimed,            \* the indices of df2 an accepted match has consumed
  m_index,            \* the row of df1 the matcher has reached
  merged_df, unmatched_df1, unmatched_df2  \* the three outputs

corr_vars == << pc, ref_file, reference_rows, user_df, threshold, reference_df,
                reference_choices, corrected_df, unmatched_rows, index,
                query_string, best_match, raised >>

app_vars == << app_pc, df1, df2, matching_threshold, col_mapping1, missing1,
               col_mapping2, missing2, errors, matcher_called, pool, claimed,
               m_index, merged_df, unmatched_df1, unmatched_df2 >>

vars == << corr_vars, app_vars >>

Underscore == <<"_">>

\* reference_df['region'] + "_" + reference_df['zone'] + "_" + reference_df['woreda']
ConcatenatedKey(ref_row) ==
  ref_row.region \o Underscore \o ref_row.zone \o Underscore \o ref_row.woreda

\* str(row.get(field, '')).strip().lower()
UserField(row, field) == Lower(Strip(PyStr(RowGet(row, field, <<>>))))

\* f"{user_region}_{user_zone}_{user_woreda}"
QueryString(row) ==
  UserField(row, "region") \o Underscore \o UserField(row, "zone")
    \o Underscore \o UserField(row, "woreda")

\* The comparison turned around.
AcceptsBelow(best, t) == best.found /\ ScoreGE(ScoreOf(t), best.score)

\* best_match and best_match[1] >= threshold
Accepts(best, t) == best.found /\ ScoreGE(best.score, ScoreOf(t))

\* run_app is not running.
AppIdle ==
  /\ app_pc = "idle"
  /\ df1 = EmptyTable /\ df2 = EmptyTable
  /\ matching_threshold = 0
  /\ col_mapping1 = <<>> /\ missing1 = <<>>
  /\ col_mapping2 = <<>> /\ missing2 = <<>>
  /\ errors = <<>>
  /\ matcher_called = FALSE
  /\ pool = <<>>
  /\ claimed = {}
  /\ m_index = 0
  /\ merged_df = <<>> /\ unmatched_df1 = <<>> /\ unmatched_df2 = <<>>

\* match_and_correct is not running.
CorrIdle ==
  /\ pc = "idle"
  /\ ref_file = "ok"
  /\ reference_rows = <<>>
  /\ user_df = <<>>
  /\ threshold = 0
  /\ reference_df = <<>>
  /\ reference_choices = <<>>
  /\ corrected_df = <<>>
  /\ unmatched_rows = <<>>
  /\ index = 0
  /\ query_string = <<>>
  /\ best_match = NoMatch
  /\ raised = "none"

Init ==
  /\ pc = "load"
  /\ ref_file \in RefFileStates
  /\ reference_rows \in (IF ref_file = "ok" THEN ReferenceTables ELSE { <<>> })
  /\ user_df \in UserTables
  /\ threshold \in Thresholds
  /\ reference_df = <<>>
  /\ reference_choices = <<>>
  /\ corrected_df = <<>>
  /\ unmatched_rows = <<>>
  /\ index = 0
  /\ query_string = <<>>
  /\ best_match = NoMatch
  /\ raised = "none"
  /\ AppIdle

\* A load that takes a table without rows for an empty file.
LoadReferenceRejectsEmpty ==
  /\ pc = "load"
  /\ ref_file = "ok"
  /\ IF reference_rows = <<>>
     THEN /\ raised' = "EmptyDataError"
          /\ pc' = "raised"
          /\ UNCHANGED reference_df
     ELSE /\ reference_df' = reference_rows
          /\ pc' = "prepare"
          /\ UNCHANGED raised
  /\ UNCHANGED << ref_file, reference_rows, user_df, threshold,
                  reference_choices, corrected_df, unmatched_rows, index,
                  query_string, best_match, app_vars >>

\* load_reference_data returns the table.
LoadReference ==
  /\ pc = "load"
  /\ ref_file = "ok"
  /\ reference_df' = reference_rows
  /\ pc' = "prepare"
  /\ UNCHANGED << ref_file, reference_rows, user_df, threshold,
                  reference_choices, corrected_df, unmatched_rows, index,
                  query_string, best_match, raised,
                  app_vars >>

\* load_reference_data raises, and match_and_correct raises it again.
LoadReferenceRaises ==
  /\ pc = "load"
  /\ ref_file # "ok"
  /\ raised' = CASE ref_file = "missing" -> "FileNotFoundError"
                 [] ref_file = "empty"   -> "EmptyDataError"
                 [] ref_file = "badcols" -> "ValueError"
  /\ pc' = "raised"
  /\ UNCHANGED << ref_file, reference_rows, user_df, threshold, reference_df,
                  reference_choices, corrected_df, unmatched_rows, index,
                  query_string, best_match,
                  app_vars >>

\* The copy of user_df with blank standardized columns, and the keys of the
\* reference.
Prepare ==
  /\ pc = "prepare"
  /\ corrected_df' =
       [i \in DOMAIN user_df |->
          [row |-> user_df[i],
           standardized_region |-> <<>>,
           standardized_zone   |-> <<>>,
           standardized_woreda |-> <<>>,
           match_score         |-> ScoreOf(0)]]
  /\ unmatched_rows' = <<>>
  /\ reference_choices' =
       [j \in DOMAIN reference_df |-> ConcatenatedKey(reference_df[j])]
  /\ pc' = "loop"
  /\ UNCHANGED << ref_file, reference_rows, user_df, threshold, reference_df,
                  index, query_string, best_match, raised,
                  app_vars >>

\* reference_df.iloc[ref_index]
MatchedRefRowFirst(ref, best) == ref[1]

MatchedRefRow(ref, best) == ref[best.index]

\* corrected_df.loc[index, ...] = ...: the standardized names and the score.
Annotate(cdf, i, matched_ref_row, score) ==
  [cdf EXCEPT ![i].standardized_region = matched_ref_row.region,
              ![i].standardized_zone   = matched_ref_row.zone,
              ![i].standardized_woreda = matched_ref_row.woreda,
              ![i].match_score         = score]

\* A turn that adds the row to the unmatched list whether or not it matched.
StepAlwaysUnmatched(cdf, unm, i, row, best, ref, t) ==
  [corrected |-> IF Accepts(best, t)
                 THEN Annotate(cdf, i, MatchedRefRow(ref, best), best.score)
                 ELSE cdf,
   unmatched |-> Append(unm, row)]

\* The body of the loop for row i once best_match is known: the two
\* outputs after it.
Step(cdf, unm, i, row, best, ref, t) ==
  IF Accepts(best, t)
  THEN [corrected |-> Annotate(cdf, i, MatchedRefRow(ref, best), best.score),
        unmatched |-> unm]
  ELSE [corrected |-> cdf, unmatched |-> Append(unm, row)]

\* best_match for a row of the user table.
BestMatch(row, choices) ==
  ExtractOne(QueryString(row), choices, "token_set_ratio")

\* One turn of the loop over user_df.iterrows().
Iterate ==
  /\ pc = "loop"
  /\ index < Len(user_df)
  /\ index' = index + 1
  /\ query_string' = QueryString(user_df[index + 1])
  /\ best_match' = BestMatch(user_df[index + 1], reference_choices)
  /\ corrected_df' =
       Step(corrected_df, unmatched_rows, index + 1, user_df[index + 1],
            best_match', reference_df, threshold).corrected
  /\ unmatched_rows' =
       Step(corrected_df, unmatched_rows, index + 1, user_df[index + 1],
            best_match', reference_df, threshold).unmatched
  /\ UNCHANGED << pc, ref_file, reference_rows, user_df, threshold,
                  reference_df, reference_choices, raised,
                  app_vars >>

\* The loop is over: unmatched_df is built and both tables are returned.
Return ==
  /\ pc = "loop"
  /\ index = Len(user_df)
  /\ pc' = "returned"
  /\ UNCHANGED << ref_file, reference_rows, user_df, threshold, reference_df,
                  reference_choices, corrected_df, unmatched_rows, index,
                  query_string, best_match, raised,
                  app_vars >>

Next == LoadReference \/ LoadReferenceRaises \/ Prepare \/ Iterate \/ Return

Spec == Init /\ [][Next]_vars

\* ------------------------------------------------------------------------
\* app.py: run_app
\* ------------------------------------------------------------------------

RegionName == <<"r","e","g","i","o","n">>
ZoneName   == <<"z","o","n","e">>
WoredaName == <<"w","o","r","e","d","a">>
HealthFacilitiesName ==
  <<"h","e","a","l","t","h","_","f","a","c","i","l","i","t","i","e","s">>

required_key_columns ==
  << RegionName, ZoneName, WoredaName, HealthFacilitiesName >>

\* The score a header needs to be bound to a required column.
ColumnThreshold == 85

\* The values of the matching threshold slider the model tries.
SliderValues == { 80, 100 }

\* A layout names the headers of a table and the logical field each holds.
Col(header, field) == [header |-> header, field |-> field]

LayoutGood ==
  << Col(<<"R","e","g","i","o","n">>, "region"),
     Col(<<"Z","o","n","e">>, "zone"),
     Col(<<"W","o","r","e","d","a">>, "woreda"),
     Col(<<"H","e","a","l","t","h","_","F","a","c","i","l","i","t","i","e","s">>,
         "facility") >>

LayoutSloppy ==
  << Col(<<"h","e","a","l","t","h"," ","f","a","c","i","l","i","t","i","e","s">>,
         "facility"),
     Col(<<" ","r","e","g","i","o","n">>, "region"),
     Col(<<"Z","o","n","e","s">>, "zone"),
     Col(<<"w","o","r","e","d","a"," ">>, "woreda") >>

LayoutBad ==
  << Col(<<"r","e","g","i","o","n">>, "region"),
     Col(<<"z","o","n","e">>, "zone"),
     Col(<<"w","e","r","e","d","a">>, "woreda"),
     Col(<<"h","e","a","l","t","h","_","f","a","c","i","l","i","t","i","e","s">>,
         "facility") >>

Layouts == { LayoutGood, LayoutSloppy, LayoutBad }

Row4(r, z, w, f) == [region |-> r, zone |-> z, woreda |-> w, facility |-> f]

Afar  == <<"a","f","a","r">>
Zone1 == <<"z","o","n","e"," ","1">>
Dubti == <<"d","u","b","t","i">>

\* The rows dataset 1 is made of.
RowPool1 ==
  { Row4(<<" ","A","f","a","r">>, <<"Z","o","n","e"," ","1">>,
         <<"D","u","b","t","i">>, <<"D","u","b","t","i"," ","H","C">>),
    Row4(Afar, Zone1, Dubti, <<"d","u","b","t","i"," "," ","h","p">>) }

\* The rows dataset 2 is made of.
RowPool2 ==
  { Row4(Afar, Zone1, Dubti, <<"d","u","b","t","i"," ","h","c"," ">>),
    Row4(<<"s","o","m","a","l","i">>, <<"j","a","r","a","r">>,
         <<"g","a","s","h","a","m","o">>, NaN) }

MaxMergeRows == 2

\* The table of a layout and a sequence of logical rows.
TableOf(layout, rows) ==
  [columns |-> [k \in DOMAIN layout |-> layout[k].header],
   rows    |-> [i \in DOMAIN rows |->
                  [k \in DOMAIN layout |-> rows[i][layout[k].field]]]]

Tables(rowPool) ==
  { TableOf(layout, rows) :
      layout \in Layouts, rows \in SeqsUpTo(rowPool, MaxMergeRows) }

\* list.index(x): the first position of x.
IndexOf(seq, x) == CHOOSE i \in DOMAIN seq : seq[i] = x /\ \A j \in 1..(i - 1) : seq[j] # x

\* [col.strip().lower() for col in df.columns]
NormalizedCols(df) == [k \in DOMAIN df.columns |-> Lower(Strip(df.columns[k]))]

\* process.extractOne(req_col, normalized_cols, scorer=fuzz.ratio)
BestColumn(normalized_cols, req_col) ==
  ExtractOne(req_col, normalized_cols, "ratio")

\* A resolver that binds the best header whatever its score.
ColumnAcceptedAny(best) == best.found

\* best_match and best_match[1] >= 85
ColumnAccepted(best) == best.found /\ ScoreGE(best.score, ScoreOf(ColumnThreshold))

\* The numbers of the set S as a sequence in ascending order.
RECURSIVE Ascending(_)
Ascending(S) ==
  IF S = {} THEN <<>>
  ELSE <<CHOOSE m \in S : \A n \in S : m <= n>>
         \o Ascending(S \ {CHOOSE m \in S : \A n \in S : m <= n})

\* The result of map_columns from the best header of each required column:
\* the columns whose best header clears the threshold are bound to the
\* first header of that normalized name, the others are missing.
MappingOf(df, required_cols, normalized_cols, bests) ==
  [col_mapping |->
     [req \in { required_cols[k] :
                  k \in { n \in DOMAIN required_cols : ColumnAccepted(bests[n]) } } |->
        df.columns[IndexOf(normalized_cols,
                           bests[IndexOf(required_cols, req)].choice)]],
   missing_cols |->
     [n \in DOMAIN Ascending({ m \in DOMAIN required_cols : ~ColumnAccepted(bests[m]) }) |->
        required_cols[Ascending({ m \in DOMAIN required_cols :
                                    ~ColumnAccepted(bests[m]) })[n]]] \o <<>>]

BestColumns(required_cols, normalized_cols) ==
  [k \in DOMAIN required_cols |-> BestColumn(normalized_cols, required_cols[k])] \o <<>>

MapNormalized(df, required_cols, normalized_cols) ==
  MappingOf(df, required_cols, normalized_cols,
            BestColumns(required_cols, normalized_cols))

\* map_columns(df, required_cols): (col_mapping, missing_cols)
map_columns(df, required_cols) ==
  MapNormalized(df, required_cols, NormalizedCols(df) \o <<>>)

\* Both files are uploaded; read_file has returned the two tables.
InitMerge ==
  /\ app_pc = "map1"
  /\ df1 \in Tables(RowPool1)
  /\ df2 \in Tables(RowPool2)
  /\ matching_threshold \in SliderValues
  /\ col_mapping1 = <<>> /\ missing1 = <<>>
  /\ col_mapping2 = <<>> /\ missing2 = <<>>
  /\ errors = <<>>
  /\ matcher_called = FALSE
  /\ pool = <<>>
  /\ claimed = {}
  /\ m_index = 0
  /\ merged_df = <<>> /\ unmatched_df1 = <<>> /\ unmatched_df2 = <<>>
  /\ CorrIdle

MapColumns1 ==
  /\ app_pc = "map1"
  /\ LET got == map_columns(df1, required_key_columns)
     IN  /\ col_mapping1' = got.col_mapping
         /\ missing1' = got.missing_cols
  /\ app_pc' = "map2"
  /\ UNCHANGED << df1, df2, matching_threshold, col_mapping2, missing2,
                  errors, matcher_called, pool, claimed, m_index, merged_df,
                  unmatched_df1, unmatched_df2, corr_vars >>

MapColumns2 ==
  /\ app_pc = "map2"
  /\ LET got == map_columns(df2, required_key_columns)
     IN  /\ col_mapping2' = got.col_mapping
         /\ missing2' = got.missing_cols
  /\ app_pc' = "gate"
  /\ UNCHANGED << df1, df2, matching_threshold, col_mapping1, missing1,
                  errors, matcher_called, pool, claimed, m_index, merged_df,
                  unmatched_df1, unmatched_df2, corr_vars >>

\* if missing1 or missing2: an st.error for each table with missing columns.
ReportMissing ==
  /\ app_pc = "gate"
  /\ missing1 # <<>> \/ missing2 # <<>>
  /\ errors' =
       (IF missing1 # <<>> THEN << [dataset |-> 1, missing |-> missing1] >> ELSE <<>>)
         \o (IF missing2 # <<>> THEN << [dataset |-> 2, missing |-> missing2] >> ELSE <<>>)
  /\ app_pc' = "done"
  /\ UNCHANGED << df1, df2, matching_threshold, col_mapping1, missing1,
                  col_mapping2, missing2, matcher_called, pool, claimed,
                  m_index, merged_df, unmatched_df1, unmatched_df2,
                  corr_vars >>

\* ------------------------------------------------------------------------
\* match_and_merge_two_datasets(df1, df2, col_mapping1, col_mapping2,
\* threshold): the greedy single-stage matcher
\* ------------------------------------------------------------------------

\* The logical fields of a comparison key, in their fixed order.
KeyFields == required_key_columns

\* Normalizer: null is the empty string; trim, lowercase, collapse the
\* internal whitespace.
Normalize(v) ==
  IF v = NaN THEN <<>> ELSE JoinWith(Split(Lower(v)), <<" ">>)

\* Key builder: the normalized values of the key fields joined with "_".
ComparisonKey(df, col_mapping, i) ==
  JoinWith([k \in DOMAIN KeyFields |->
              Normalize(df.rows[i][IndexOf(df.columns, col_mapping[KeyFields[k]])])],
           Underscore)

\* A matcher that does not look at the claimed set.
MergeAcceptsIgnoringClaims(best, t, taken) ==
  best.found /\ ScoreGE(best.score, ScoreOf(t))

\* Accept if score >= threshold and the winning pool index is not claimed.
MergeAccepts(best, t, taken) ==
  /\ best.found
  /\ ScoreGE(best.score, ScoreOf(t))
  /\ best.index \notin taken

\* else: the call of the matcher, which builds the candidate pool.
CallMatcher ==
  /\ app_pc = "gate"
  /\ ~(missing1 # <<>> \/ missing2 # <<>>)
  /\ matcher_called' = TRUE
  /\ pool' = [j \in DOMAIN df2.rows |-> ComparisonKey(df2, col_mapping2, j)]
  /\ claimed' = {}
  /\ m_index' = 0
  /\ merged_df' = <<>>
  /\ unmatched_df1' = <<>>
  /\ app_pc' = "match"
  /\ UNCHANGED << df1, df2, matching_threshold, col_mapping1, missing1,
                  col_mapping2, missing2, errors, unmatched_df2, corr_vars >>

\* One query of dataset 1, in input order.
MergeIterate ==
  /\ app_pc = "match"
  /\ m_index < Len(df1.rows)
  /\ LET i    == m_index + 1
         key  == ComparisonKey(df1, col_mapping1, i)
         best == ExtractOne(key, pool, "token_set_ratio")
     IN  /\ m_index' = i
         /\ IF MergeAccepts(best, matching_threshold, claimed)
            THEN /\ claimed' = claimed \cup { best.index }
                 /\ merged_df' =
                      Append(merged_df,
                             [query |-> i, candidate |-> best.index,
                              score |-> best.score])
                 /\ UNCHANGED unmatched_df1
            ELSE /\ unmatched_df1' = Append(unmatched_df1, i)
                 /\ UNCHANGED << claimed, merged_df >>
  /\ UNCHANGED << app_pc, df1, df2, matching_threshold, col_mapping1,
                  missing1, col_mapping2, missing2, errors, matcher_called,
                  pool, unmatched_df2, corr_vars >>

\* A report that leaves out the last candidate.
UnclaimedButLast(n, taken) ==
  SelectSeq([j \in 1..(n - 1) |-> j], LAMBDA j : j \notin taken)

\* The candidates never claimed, in their order.
Unclaimed(n, taken) ==
  SelectSeq([j \in 1..n |-> j], LAMBDA j : j \notin taken)

\* All queries are processed: the pool entries never claimed are the
\* unmatched rows of dataset 2, and the three tables are returned.
MergeReturn ==
  /\ app_pc = "match"
  /\ m_index = Len(df1.rows)
  /\ unmatched_df2' = Unclaimed(Len(df2.rows), claimed)
  /\ app_pc' = "done"
  /\ UNCHANGED << df1, df2, matching_threshold, col_mapping1, missing1,
                  col_mapping2, missing2, errors, matcher_called, pool,
                  claimed, m_index, merged_df, unmatched_df1, corr_vars >>

NextMerge ==
  MapColumns1 \/ MapColumns2 \/ ReportMissing \/ CallMatcher \/ MergeIterate
    \/ MergeReturn

SpecMerge == InitMerge /\ [][NextMerge]_vars

\* ------------------------------------------------------------------------
\* Properties of match_and_correct (Spec)
\* ------------------------------------------------------------------------

\* The default of the region_zone_threshold parameter.
RegionZoneThreshold == 90

Blank(rec) ==
  /\ rec.standardized_region = <<>>
  /\ rec.standardized_zone = <<>>
  /\ rec.standardized_woreda = <<>>

\* The rows whose match was accepted: those the loop gave a score.  Every
\* threshold is positive, so an accepted score is.
AcceptedRows ==
  { i \in DOMAIN corrected_df : ScoreGT(corrected_df[i].match_score, ScoreOf(0)) }

\* The rows of seq at the positions S, in order.
RowsAt(seq, S) == [n \in DOMAIN Ascending(S) |-> seq[Ascending(S)[n]]] \o <<>>

\* C1: when match_and_correct returns, the accepted rows and the unmatched
\* rows partition the input: their counts add up to the number of input
\* rows, and the unmatched output is exactly the input rows that were not
\* accepted, each once and in input order.
CorrectionPartition ==
  pc = "returned" =>
    /\ Cardinality(AcceptedRows) + Len(unmatched_rows) = Len(user_df)
    /\ unmatched_rows = RowsAt(user_df, DOMAIN user_df \ AcceptedRows)

CorrectionPartitionWitness ==
  /\ pc = "returned"
  /\ AcceptedRows # {}
  /\ unmatched_rows # <<>>

\* The key of stage 1: the normalized region and zone of a user row.
RegionZoneKey(row) ==
  UserField(row, "region") \o Underscore \o UserField(row, "zone")

\* Stage 1 passes for a row when some (region, zone) pair of the reference
\* scores at least the region-zone threshold.
Stage1Passes(row) ==
  \E j \in DOMAIN reference_df :
    ScoreGE(TokenSetRatio(RegionZoneKey(row),
                          reference_df[j].region \o Underscore \o reference_df[j].zone),
            ScoreOf(RegionZoneThreshold))

\* C2: a row whose (region, zone) key scores below the region-zone
\* threshold against every (region, zone) pair of the reference is reported
\* unmatched and its standardized fields stay blank.
Stage1Gate ==
  pc = "returned" =>
    \A i \in DOMAIN user_df :
      ~Stage1Passes(user_df[i]) =>
        i \notin AcceptedRows /\ Blank(corrected_df[i])

\* The key of a reference row with its fields trimmed and lowercased.
NormalizedReferenceKey(ref_row) ==
  Lower(Strip(ref_row.region)) \o Underscore \o Lower(Strip(ref_row.zone))
    \o Underscore \o Lower(Strip(ref_row.woreda))

\* C6: a row whose key equals the key of a reference row once the fields of
\* both sides are trimmed and lowercased is accepted with score 100, at
\* every threshold up to 100.
ExactMatchAccepted ==
  pc = "returned" =>
    \A i \in DOMAIN user_df :
      (\E j \in DOMAIN reference_df :
          QueryString(user_df[i]) = NormalizedReferenceKey(reference_df[j]))
        => /\ i \in AcceptedRows
           /\ corrected_df[i].match_score = ScoreOf(100)

\* The number of rows match_and_correct accepts at threshold t.
AcceptedCount(t) ==
  Cardinality({ i \in DOMAIN user_df :
                  Accepts(BestMatch(user_df[i], reference_choices), t) })

\* C7: for the same user table and reference, a higher threshold never
\* accepts more rows: the count of the run is the count at its threshold,
\* and the count at a higher threshold is never larger.
ThresholdMonotone ==
  pc = "returned" =>
    /\ Cardinality(AcceptedRows) = AcceptedCount(threshold)
    /\ \A t1 \in Thresholds : \A t2 \in Thresholds :
         t1 <= t2 => AcceptedCount(t2) <= AcceptedCount(t1)

ThresholdMonotoneWitness ==
  /\ pc = "returned"
  /\ \E t1 \in Thresholds : \E t2 \in Thresholds :
       t1 < t2 /\ AcceptedCount(t2) < AcceptedCount(t1)
  /\ AcceptedRows # {}

\* The score of a user row against the k-th reference key.
RowScore(row, k) == TokenSetRatio(QueryString(row), reference_choices[k])

\* The reference row that wins the match of a user row: none scores
\* higher and none before it scores as high.
Wins(row, j) ==
  /\ \A k \in DOMAIN reference_choices : ScoreGE(RowScore(row, j), RowScore(row, k))
  /\ \A k \in 1..(j - 1) : ScoreGT(RowScore(row, j), RowScore(row, k))

\* C8: the corrected output has one record per input row, holding that
\* row; a row of the unmatched set has blank standardized fields; an
\* accepted row holds the region, zone and woreda of the reference row that
\* won its match, and that match's score, which reaches the threshold.
CorrectionAnnotation ==
  pc = "returned" =>
    /\ Len(corrected_df) = Len(user_df)
    /\ \A i \in DOMAIN user_df :
         /\ corrected_df[i].row = user_df[i]
         /\ (\E n \in DOMAIN unmatched_rows : unmatched_rows[n] = user_df[i])
              => Blank(corrected_df[i]) /\ corrected_df[i].match_score = ScoreOf(0)
         /\ i \in AcceptedRows =>
              \E j \in DOMAIN reference_df :
                /\ Wins(user_df[i], j)
                /\ corrected_df[i].standardized_region = reference_df[j].region
                /\ corrected_df[i].standardized_zone = reference_df[j].zone
                /\ corrected_df[i].standardized_woreda = reference_df[j].woreda
                /\ corrected_df[i].match_score = RowScore(user_df[i], j)
                /\ ScoreGE(corrected_df[i].match_score, ScoreOf(threshold))

CorrectionAnnotationWitness ==
  /\ pc = "returned"
  /\ unmatched_rows # <<>>
  /\ Len(reference_df) >= 2
  /\ \E i \in AcceptedRows :
       /\ Wins(user_df[i], 2)
       /\ corrected_df[i].standardized_woreda = reference_df[2].woreda
       /\ corrected_df[i].standardized_woreda # reference_df[1].woreda

\* C9: with a reference of zero rows the function raises nothing, and when
\* it returns every row is unmatched and no standardized field is filled.
EmptyReferenceAllUnmatched ==
  (ref_file = "ok" /\ reference_rows = <<>>) =>
    /\ raised = "none" /\ pc # "raised"
    /\ pc = "returned" =>
         /\ unmatched_rows = user_df
         /\ AcceptedRows = {}
         /\ \A i \in DOMAIN corrected_df : Blank(corrected_df[i])

EmptyReferenceWitness ==
  /\ pc = "returned"
  /\ ref_file = "ok"
  /\ reference_rows = <<>>
  /\ Len(user_df) = MaxRows

\* The key component of a field when null and missing values are the empty
\* string.
NullSafeField(row, field) ==
  IF field \notin DOMAIN row \/ row[field] = NaN THEN <<>>
  ELSE Lower(Strip(row[field]))

\* C10: the key built for a row has the empty string in the place of every
\* region, zone or woreda that is null or missing.
NullIsEmptyComponent ==
  (pc \in {"loop", "returned"} /\ index > 0) =>
    query_string =
      NullSafeField(user_df[index], "region") \o Underscore
        \o NullSafeField(user_df[index], "zone") \o Underscore
        \o NullSafeField(user_df[index], "woreda")

\* ------------------------------------------------------------------------
\* Properties of run_app and the merge (SpecMerge)
\* ------------------------------------------------------------------------

\* The candidates of the accepted matches are pairwise distinct and are
\* exactly the claimed set.
ClaimsDistinct ==
  /\ \A a \in DOMAIN merged_df : \A b \in DOMAIN merged_df :
       a # b => merged_df[a].candidate # merged_df[b].candidate
  /\ claimed = { merged_df[a].candidate : a \in DOMAIN merged_df }

\* C3: in a merge pass no candidate index is in more than one accepted
\* match, and the claimed set only grows from one step to the next.
AtMostOneClaim ==
  /\ []ClaimsDistinct
  /\ [][claimed \subseteq claimed']_vars

\* A query was refused although its best candidate scores at least the
\* threshold: the candidate was claimed by an earlier query.
AtMostOneClaimWitness ==
  /\ app_pc = "done"
  /\ matcher_called
  /\ merged_df # <<>>
  /\ \E n \in DOMAIN unmatched_df1 :
       ScoreGE(ExtractOne(ComparisonKey(df1, col_mapping1, unmatched_df1[n]),
                          pool, "token_set_ratio").score,
               ScoreOf(matching_threshold))

\* C4: when the merge has returned, |merged| + |unmatched_left| = |dataset1|
\* and |merged| + |unmatched_right| = |dataset2|.
MergePartition ==
  (app_pc = "done" /\ matcher_called) =>
    /\ Len(merged_df) + Len(unmatched_df1) = Len(df1.rows)
    /\ Len(merged_df) + Len(unmatched_df2) = Len(df2.rows)

MergePartitionWitness ==
  /\ app_pc = "done"
  /\ matcher_called
  /\ merged_df # <<>>
  /\ unmatched_df1 # <<>>
  /\ unmatched_df2 # <<>>

\* The required columns no header of the table reaches the column
\* threshold for.
Unresolved(df) ==
  { req \in Range(required_key_columns) :
      \A k \in DOMAIN df.columns :
        ~ScoreGE(Ratio(req, Lower(Strip(df.columns[k]))), ScoreOf(ColumnThreshold)) }

\* The gate, for the unresolved columns u1 of dataset 1 and u2 of dataset 2.
GateHolds(u1, u2) ==
  /\ app_pc \in {"gate", "match", "done"} =>
       /\ Range(missing1) = u1
       /\ Range(missing2) = u2
       /\ DOMAIN col_mapping1 = Range(required_key_columns) \ u1
       /\ DOMAIN col_mapping2 = Range(required_key_columns) \ u2
  /\ matcher_called =>
       /\ u1 = {} /\ u2 = {}
       /\ DOMAIN col_mapping1 = Range(required_key_columns)
       /\ DOMAIN col_mapping2 = Range(required_key_columns)
  /\ (app_pc = "done" /\ (u1 # {} \/ u2 # {})) =>
       /\ ~matcher_called
       /\ merged_df = <<>>
       /\ { e.dataset : e \in Range(errors) } =
            (IF u1 # {} THEN {1} ELSE {}) \cup (IF u2 # {} THEN {2} ELSE {})

\* C5: a required column with no header scoring at least 85 is reported
\* missing; when either table has one, the error is shown and the matcher
\* is never called; the matcher is called only with every required column
\* of both tables mapped.
ColumnGate == GateHolds(Unresolved(df1), Unresolved(df2))

\* One table resolves every column and the other does not: no matching.
ColumnGateWitness ==
  /\ app_pc = "done"
  /\ Unresolved(df1) = {}
  /\ Unresolved(df2) # {}
  /\ Len(df1.rows) > 0 /\ Len(df2.rows) > 0
  /\ errors # <<>>

====
